---- MODULE Spec2Model ----
(***************************************************************************)
(* Model of the MemeCoin bot's payment-gated action coordinator:           *)
(* Bot/Handlers/Payment_Handlers.py, Bot/Handlers/Create_Handlers.py,      *)
(* Bot/Utils/BlockChain.py and Bot/Utils/Database.py.                      *)
(*                                                                         *)
(* Scheduling.  Bot.py builds the Application without concurrent_updates   *)
(* and every handler is registered blocking, so the dispatcher awaits one  *)
(* handler to completion before it takes the next update: at most one      *)
(* handler frame (cur) exists.  A handler is split at its external calls   *)
(* (explorer fetch, chain call, store call); between two of them the       *)
(* outside world (clock, incoming transfers) may move.                     *)
(*                                                                         *)
(* Units.  Time is counted in hours.  Prices are hundredths of a BNB and   *)
(* transfer values are units of 10^15 wei, so that to_wei is a real        *)
(* conversion; token supplies are counted in millions.  All numbers then   *)
(* fit 32-bit integers.                                                    *)
(***************************************************************************)
EXTENDS Integers, Sequences, FiniteSets, TLC

(* ---------------------------- bounds ----------------------------------- *)
MaxTime == 2
MaxTransfers == 1
MaxActuations == 2
MaxResult == 2

(* ------------------------ program constants ---------------------------- *)
UNLOCK_PRICE == 5
CMC_PRICE == 50
WEI_PER_PRICE_UNIT == 10
HOUR == 1

PAYMENT_WALLET == "0xPaY"
Users == {1, 2}
PaymentTypes == {"unlock", "cmc"}

(* str.lower() on the address strings of the model *)
Lower(s) ==
    CASE s = "0xPaY" -> "0xpay"
      [] s = "0xPAY" -> "0xpay"
      [] s = "0xOther" -> "0xother"
      [] OTHER -> s

(* w3.to_wei(amount, 'ether') *)
to_wei(amount) == amount * WEI_PER_PRICE_UNIT

(* Python's None for an optional argument is <<>>, a value v is <<v>>. *)
None == <<>>
Some(v) == <<v>>

VARIABLES
    coins,        \* the coins table: a sequence of rows, row id = index
    chain,        \* the chain as the deployer key sees it
    transfers,    \* the explorer's txlist of PAYMENT_WALLET, newest first
    now,          \* the wall clock, in hours
    cur,          \* the handler frame the dispatcher is running
    actuations,   \* history: every Chain Actuator invocation, in order
    outcome,      \* history: the last result a handler surfaced
    probe,        \* history: the last direct call of verify_payment
    user_data,    \* Create_Handlers.user_data: the session of each user
    conv,         \* the ConversationHandler's state of each (chat, user)
    transactions  \* the transactions table: a sequence of rows, row id = index

vars == <<coins, chain, transfers, now, cur, actuations, outcome, probe,
          user_data, conv, transactions>>

(* ------------------------------ store ---------------------------------- *)
NoCoin ==
    [id |-> 0, user_id |-> 0, name |-> "", symbol |-> "", supply |-> 0,
     logo_path |-> <<0, "">>, contract_address |-> 0, ref_id |-> "",
     trading_enabled |-> FALSE, cmc_submitted |-> FALSE, created_at |-> 0]

NewRow(cs, user_id, name, symbol, supply, logo_path, contract_address, ref_id, trading_enabled, t) ==
    [id |-> Len(cs) + 1, user_id |-> user_id, name |-> name, symbol |-> symbol,
     supply |-> supply, logo_path |-> logo_path,
     contract_address |-> contract_address, ref_id |-> ref_id,
     trading_enabled |-> trading_enabled, cmc_submitted |-> FALSE,
     created_at |-> t]

(* add_new_coin storing the asset with its trading enabled *)
add_new_coin_enabled(cs, user_id, name, symbol, supply, logo_path, contract_address, ref_id, trading_enabled, t) ==
    Append(cs, NewRow(cs, user_id, name, symbol, supply, logo_path,
                      contract_address, ref_id, TRUE, t))

(* add_new_coin binding name and symbol to each other's column *)
add_new_coin_columns_swapped(cs, user_id, name, symbol, supply, logo_path, contract_address, ref_id, trading_enabled, t) ==
    Append(cs, NewRow(cs, user_id, symbol, name, supply, logo_path,
                      contract_address, ref_id, trading_enabled, t))

(* add_new_coin: INSERT INTO coins; no uniqueness constraint on user_id *)
add_new_coin(cs, user_id, name, symbol, supply, logo_path, contract_address, ref_id, trading_enabled, t) ==
    Append(cs, NewRow(cs, user_id, name, symbol, supply, logo_path,
                      contract_address, ref_id, trading_enabled, t))

(* get_user_coin: SELECT * FROM coins WHERE user_id = ? ORDER BY created_at  *)
(* DESC LIMIT 1.  The set of rows the query may return: rows that tie on     *)
(* created_at are returned in an order SQLite leaves open.  A store error is *)
(* caught and gives None, as does an empty result.                           *)
UserRows(cs, user_id) == {i \in DOMAIN cs : cs[i].user_id = user_id}

get_user_coin(cs, user_id, db_ok) ==
    IF ~db_ok \/ UserRows(cs, user_id) = {}
    THEN {NoCoin}
    ELSE {cs[i] : i \in {j \in UserRows(cs, user_id) :
                    \A k \in UserRows(cs, user_id) :
                        cs[k].created_at <= cs[j].created_at}}

(* update_coin_status writing every flag, the ones not given as False *)
update_coin_status_resets(cs, user_id, contract_address, trading_enabled, cmc_submitted) ==
    [i \in DOMAIN cs |->
        IF cs[i].user_id = user_id /\ cs[i].contract_address = contract_address
        THEN [cs[i] EXCEPT
                !.trading_enabled =
                    IF trading_enabled # None THEN trading_enabled[1] ELSE FALSE,
                !.cmc_submitted =
                    IF cmc_submitted # None THEN cmc_submitted[1] ELSE FALSE]
        ELSE cs[i]]

(* update_coin_status written as INSERT OR REPLACE of a row of flags *)
update_coin_status_replaces(cs, user_id, contract_address, trading_enabled, cmc_submitted) ==
    [i \in DOMAIN cs |->
        IF cs[i].user_id = user_id /\ cs[i].contract_address = contract_address
        THEN [NoCoin EXCEPT
                !.id = cs[i].id, !.user_id = user_id,
                !.contract_address = contract_address,
                !.trading_enabled =
                    IF trading_enabled # None THEN trading_enabled[1]
                    ELSE cs[i].trading_enabled,
                !.cmc_submitted =
                    IF cmc_submitted # None THEN cmc_submitted[1]
                    ELSE cs[i].cmc_submitted]
        ELSE cs[i]]

(* update_coin_status: UPDATE coins SET <given flags> WHERE user_id = ? AND  *)
(* contract_address = ?                                                      *)
update_coin_status(cs, user_id, contract_address, trading_enabled, cmc_submitted) ==
    [i \in DOMAIN cs |->
        IF cs[i].user_id = user_id /\ cs[i].contract_address = contract_address
        THEN [cs[i] EXCEPT
                !.trading_enabled =
                    IF trading_enabled # None THEN trading_enabled[1] ELSE @,
                !.cmc_submitted =
                    IF cmc_submitted # None THEN cmc_submitted[1] ELSE @]
        ELSE cs[i]]

(* The transactions table and add_transaction: INSERT INTO transactions;    *)
(* the table has no unique index besides its id, and SQLite does not        *)
(* enforce the foreign key on coin_id unless asked to.                      *)
NewTransaction(txs, user_id, coin_id, tx_type, tx_hash, amount, status, t) ==
    [id |-> Len(txs) + 1, user_id |-> user_id, coin_id |-> coin_id,
     tx_type |-> tx_type, tx_hash |-> tx_hash, amount |-> amount,
     status |-> status, created_at |-> t]

add_transaction(txs, user_id, coin_id, tx_type, tx_hash, amount, status, t) ==
    Append(txs, NewTransaction(txs, user_id, coin_id, tx_type, tx_hash, amount,
                               status, t))

(* ----------------------- payment verifier ------------------------------ *)
(* One entry of the explorer's "result" list.  bad names the field that is  *)
(* missing or is no number ("none": the entry is well formed).              *)
TxBad == {"none", "timeStamp", "to", "value"}

Tx(ts, to, value, bad) == [timeStamp |-> ts, to |-> to, value |-> value, bad |-> bad]

(* What requests.get / response.json() / data["status"] can give.           *)
FetchKinds == {"ok", "network_error", "unparsable", "no_status", "status_0"}

(* The loop over data["result"], lines 222-235: the first recent entry that  *)
(* pays the wallet at least expected_wei returns True; an entry that raises  *)
(* (KeyError, ValueError) before a match ends in the except clause: False.   *)
RECURSIVE scan_result(_, _, _, _)
scan_result(result, wallet_address, expected_wei, one_hour_ago) ==
    IF result = <<>> THEN FALSE
    ELSE LET tx == Head(result) IN
         IF tx.bad = "timeStamp" THEN FALSE
         ELSE IF tx.timeStamp < one_hour_ago
         THEN scan_result(Tail(result), wallet_address, expected_wei, one_hour_ago)
         ELSE IF tx.bad = "to" THEN FALSE
         ELSE IF Lower(tx.to) # Lower(wallet_address)
         THEN scan_result(Tail(result), wallet_address, expected_wei, one_hour_ago)
         ELSE IF tx.bad = "value" THEN FALSE
         ELSE IF tx.value >= expected_wei THEN TRUE
         ELSE scan_result(Tail(result), wallet_address, expected_wei, one_hour_ago)

(* verify_payment without the test of data["status"] *)
verify_payment_no_status_test(wallet_address, expected_amount, reference, current_time, kind, result) ==
    IF kind \in {"network_error", "unparsable"} THEN FALSE
    ELSE scan_result(result, wallet_address, to_wei(expected_amount),
                     current_time - HOUR)

(* verify_payment comparing the value in wei with the amount in BNB *)
verify_payment_no_to_wei(wallet_address, expected_amount, reference, current_time, kind, result) ==
    IF kind # "ok" THEN FALSE
    ELSE scan_result(result, wallet_address, expected_amount, current_time - HOUR)

(* verify_payment(wallet_address, expected_amount, reference) at time        *)
(* current_time, given what the explorer fetch produced.                     *)
verify_payment(wallet_address, expected_amount, reference, current_time, kind, result) ==
    IF kind # "ok" THEN FALSE
    ELSE scan_result(result, wallet_address, to_wei(expected_amount),
                     current_time - HOUR)

(* A direct call of verify_payment: what the fetch gave, the amount asked   *)
(* for, and what the call returned.                                         *)
NoProbe == [kind |-> "", expected_amount |-> 0, reference |-> <<>>, ret |-> FALSE]

(* ------------------------- chain actuator ------------------------------ *)
(* chain.contracts: deployed contract addresses; chain.trading: contracts   *)
(* whose enableTrading() was mined; chain.mined: the deployer's transaction *)
(* count (what get_transaction_count returns); chain.pending: broadcast     *)
(* transactions whose receipt wait timed out.                               *)
ChainResults == {"mined", "error", "timeout"}

PendingTx(op, contract_address, nonce) ==
    [op |-> op, contract_address |-> contract_address, nonce |-> nonce]

(* One invocation of the actuator: the nonce it read from the chain, what it *)
(* returned (success), and whether send_raw_transaction broadcast a         *)
(* transaction (sent).                                                      *)
Actuation(op, contract_address, user_id, nonce, success, sent, args) ==
    [op |-> op, contract_address |-> contract_address, user_id |-> user_id,
     nonce |-> nonce, success |-> success, sent |-> sent, args |-> args]

(* send_raw_transaction went through: the receipt came, or the wait for it  *)
(* timed out                                                                *)
was_sent(res) == res \in {"mined", "timeout"}

(* unlock_trading: builds enableTrading() with the nonce read from the      *)
(* chain, sends it and waits for the receipt; True once the receipt is      *)
(* there, False on any exception (before the send, or the wait timing out). *)
unlock_trading_result(res) == res = "mined"

unlock_trading_chain(ch, contract_address, res) ==
    CASE res = "mined" ->
            [ch EXCEPT !.trading = @ \cup {contract_address},
                       !.mined = @ + 1,
                       !.pending = {t \in @ : t.nonce # ch.mined}]
      [] res = "timeout" ->
            [ch EXCEPT !.pending = {t \in @ : t.nonce # ch.mined}
                            \cup {PendingTx("enableTrading", contract_address, ch.mined)}]
      [] OTHER -> ch

(* deploy_contract: builds the constructor transaction with the nonce read  *)
(* from the chain, sends it and waits for the receipt; the address of the   *)
(* receipt, or None on any exception.  The address of a created contract is *)
(* a function of the deployer and the nonce.                                *)
contract_address_of(nonce) == nonce + 1

deploy_contract_result(ch, res) ==
    IF res = "mined" THEN Some(contract_address_of(ch.mined)) ELSE None

deploy_contract_chain(ch, res) ==
    CASE res = "mined" ->
            [ch EXCEPT !.contracts = @ \cup {contract_address_of(ch.mined)},
                       !.mined = @ + 1,
                       !.pending = {t \in @ : t.nonce # ch.mined}]
      [] res = "timeout" ->
            [ch EXCEPT !.pending = {t \in @ : t.nonce # ch.mined}
                            \cup {PendingTx("deploy", contract_address_of(ch.mined),
                                            ch.mined)}]
      [] OTHER -> ch

(* submit_cmc: sleeps two seconds and returns True *)
submit_cmc_result == TRUE

(* ------------------------------ sessions ------------------------------- *)
(* user_data[user_id] is a dict that is absent, or holds some of the keys   *)
(* name, symbol, supply, logo_path (a key not set is None).                 *)
NoSession ==
    [present |-> FALSE, name |-> None, symbol |-> None, supply |-> None,
     logo_path |-> None]

EmptySession == [NoSession EXCEPT !.present = TRUE]

(* A conversation is kept per (chat, user): user 1 talks to the bot in its  *)
(* private chat 1 and in a group chat 2.                                    *)
ConvKeys == {<<1, 1>>, <<2, 1>>}

(* --------------------------- handler frame ----------------------------- *)
NoLogo == <<0, "">>

(* What a command answers: a tag and, for payment instructions, the amount, *)
(* the address to pay, the reference to quote and the data of the           *)
(* "I've Sent the Payment" button.                                          *)
NoReply == [tag |-> "", amount |-> 0, address |-> "", ref |-> <<>>, callback |-> <<>>]

Idle ==
    [h |-> "idle", pc |-> "", user_id |-> 0, payment_type |-> "",
     contract_address |-> 0, coin |-> NoCoin, payment_verified |-> FALSE,
     chat |-> 0, name |-> "", symbol |-> "", supply |-> 0, logo_path |-> NoLogo,
     ref_id |-> "", reply |-> NoReply, data |-> ""]

(* The result a handler surfaces to its caller, as a tag. *)
NoOutcome == ""

(* Callback data is chosen by the client: any type word, any address.      *)
CallbackTypes == {"unlock", "cmc", "foo"}
CallbackAddresses == {1, 2, 3}

(* ------------------ verify_payment_callback ---------------------------- *)
(* lines 205-206 *)
payment_amount(payment_type) ==
    IF payment_type = "unlock" THEN UNLOCK_PRICE ELSE CMC_PRICE

payment_ref(payment_type, coin) == <<payment_type, coin.ref_id>>

(* the admission test without the comparison of the addresses *)
coin_is_valid_any_address(coin, contract_address) == coin # NoCoin

(* lines 191-197: the only admission test of the callback *)
coin_is_valid(coin, contract_address) ==
    coin # NoCoin /\ coin.contract_address = contract_address

(* the branch on the verdict left out *)
after_verify_ungated(payment_verified, payment_type) ==
    IF payment_type = "unlock" THEN "unlock_trading"
    ELSE IF payment_type = "cmc" THEN "submit_cmc"
    ELSE "end"

(* lines 215-268: where the handler goes once verify_payment has returned *)
after_verify(payment_verified, payment_type) ==
    IF ~payment_verified THEN "return"
    ELSE IF payment_type = "unlock" THEN "unlock_trading"
    ELSE IF payment_type = "cmc" THEN "submit_cmc"
    ELSE "end"

(* the store updated whatever the actuator returned *)
after_actuation_unchecked(success) == "update_coin_status"

(* lines 243-266 and 277-291: success updates the store, failure raises *)
after_actuation(success) ==
    IF success THEN "update_coin_status" ELSE "raise"

(* lines 176-202: parse the callback data, read the caller's coin *)
VerifyStart ==
    /\ cur.h = "idle"
    /\ Len(actuations) < MaxActuations
    /\ \E user_id \in Users, payment_type \in CallbackTypes,
          contract_address \in CallbackAddresses, db_ok \in BOOLEAN :
        \E coin \in get_user_coin(coins, user_id, db_ok) :
            IF coin_is_valid(coin, contract_address)
            THEN /\ cur' = [Idle EXCEPT !.h = "verify_payment_callback",
                                        !.pc = "verify_payment",
                                        !.user_id = user_id,
                                        !.payment_type = payment_type,
                                        !.contract_address = contract_address,
                                        !.coin = coin]
                 /\ outcome' = "verifying"
            ELSE /\ cur' = Idle
                 /\ outcome' = "invalid"
    /\ UNCHANGED <<coins, chain, transfers, now, actuations, probe, user_data, conv>>
    /\ UNCHANGED transactions

(* lines 204-215, 234-236, 268: the explorer fetch and the branch on its    *)
(* verdict                                                                  *)
VerifyPayment ==
    /\ cur.h = "verify_payment_callback" /\ cur.pc = "verify_payment"
    /\ \E kind \in FetchKinds :
        LET payment_verified ==
                verify_payment(PAYMENT_WALLET, payment_amount(cur.payment_type),
                               payment_ref(cur.payment_type, cur.coin),
                               now, kind, transfers)
        IN  cur' = [cur EXCEPT !.pc = after_verify(payment_verified, cur.payment_type),
                               !.payment_verified = payment_verified]
    /\ outcome' = "verifying"
    /\ UNCHANGED <<coins, chain, transfers, now, actuations, probe, user_data, conv>>
    /\ UNCHANGED transactions

(* line 213: requests.get is called without a timeout; against an explorer  *)
(* that accepts the connection and never answers, the call does not return, *)
(* and with it the handler (and the event loop it runs on) stays where it   *)
(* is.                                                                      *)
VerifyPaymentHangs ==
    /\ cur.h = "verify_payment_callback" /\ cur.pc = "verify_payment"
    /\ cur' = [cur EXCEPT !.pc = "blocked"]
    /\ UNCHANGED <<coins, chain, transfers, now, actuations, outcome, probe, user_data, conv>>
    /\ UNCHANGED transactions

(* the failure message without the return of line 232 *)
ReplyNotVerified_no_return ==
    /\ cur.h = "verify_payment_callback" /\ cur.pc = "return"
    /\ cur' = [cur EXCEPT !.pc = after_verify(TRUE, cur.payment_type)]
    /\ outcome' = "payment_failed"
    /\ UNCHANGED <<coins, chain, transfers, now, actuations, probe, user_data, conv>>
    /\ UNCHANGED transactions

(* lines 215-232: the failure message and the return *)
ReplyNotVerified ==
    /\ cur.h = "verify_payment_callback" /\ cur.pc = "return"
    /\ cur' = Idle
    /\ outcome' = "payment_failed"
    /\ UNCHANGED <<coins, chain, transfers, now, actuations, probe, user_data, conv>>
    /\ UNCHANGED transactions

(* lines 235-292: a verified payment of a type that is neither "unlock" nor *)
(* "cmc" runs into neither branch; the handler ends without a message       *)
FallThrough ==
    /\ cur.h = "verify_payment_callback" /\ cur.pc = "end"
    /\ cur' = Idle
    /\ outcome' = "none"
    /\ UNCHANGED <<coins, chain, transfers, now, actuations, probe, user_data, conv>>
    /\ UNCHANGED transactions

(* lines 236-241, 265-266, 293-300 with BlockChain.unlock_trading *)
UnlockTrading ==
    /\ cur.h = "verify_payment_callback" /\ cur.pc = "unlock_trading"
    /\ \E res \in ChainResults :
        LET success == unlock_trading_result(res) IN
        /\ chain' = unlock_trading_chain(chain, cur.contract_address, res)
        /\ actuations' = Append(actuations,
                Actuation("unlock_trading", cur.contract_address, cur.user_id,
                          chain.mined, success, was_sent(res), <<>>))
        /\ IF after_actuation(success) = "update_coin_status"
           THEN /\ cur' = [cur EXCEPT !.pc = "update_coin_status"]
                /\ outcome' = outcome
           ELSE /\ cur' = Idle
                /\ outcome' = "error"
    /\ UNCHANGED <<coins, transfers, now, probe, user_data, conv>>
    /\ UNCHANGED transactions

(* lines 268-275, 290-300 with BlockChain.submit_cmc *)
SubmitCmc ==
    /\ cur.h = "verify_payment_callback" /\ cur.pc = "submit_cmc"
    /\ LET success == submit_cmc_result IN
        /\ actuations' = Append(actuations,
                Actuation("submit_cmc", cur.contract_address, cur.user_id,
                          chain.mined, success, FALSE, <<>>))
        /\ IF after_actuation(success) = "update_coin_status"
           THEN /\ cur' = [cur EXCEPT !.pc = "update_coin_status"]
                /\ outcome' = outcome
           ELSE /\ cur' = Idle
                /\ outcome' = "error"
    /\ UNCHANGED <<coins, chain, transfers, now, probe, user_data, conv>>
    /\ UNCHANGED transactions

(* lines 244-264 and 278-289: the store write, whose result is ignored,     *)
(* then the success message                                                 *)
UpdateCoinStatus ==
    /\ cur.h = "verify_payment_callback" /\ cur.pc = "update_coin_status"
    /\ \E db_ok \in BOOLEAN :
        coins' = IF ~db_ok THEN coins
                 ELSE IF cur.payment_type = "unlock"
                 THEN update_coin_status(coins, cur.user_id, cur.contract_address,
                                         Some(TRUE), None)
                 ELSE update_coin_status(coins, cur.user_id, cur.contract_address,
                                         None, Some(TRUE))
    /\ cur' = Idle
    /\ outcome' = IF cur.payment_type = "unlock" THEN "unlocked" ELSE "cmc_submitted"
    /\ UNCHANGED <<chain, transfers, now, actuations, probe, user_data, conv>>
    /\ UNCHANGED transactions

(* --------------------- unlock_command, cmc_command --------------------- *)
Instructions(amount, kind, coin) ==
    [tag |-> IF kind = "unlock" THEN "unlock_instructions" ELSE "cmc_instructions",
     amount |-> amount, address |-> PAYMENT_WALLET,
     ref |-> <<kind, coin.ref_id>>,
     callback |-> <<"verify", kind, coin.contract_address>>]

(* unlock_command, lines 34-75: what it answers for the coin it has read *)
unlock_command(coin) ==
    IF coin = NoCoin THEN [NoReply EXCEPT !.tag = "no_coin"]
    ELSE IF coin.trading_enabled THEN [NoReply EXCEPT !.tag = "already_unlocked"]
    ELSE Instructions(UNLOCK_PRICE, "unlock", coin)

(* cmc_command, lines 81-130 *)
cmc_command(coin) ==
    IF coin = NoCoin THEN [NoReply EXCEPT !.tag = "no_coin"]
    ELSE IF ~coin.trading_enabled THEN [NoReply EXCEPT !.tag = "trading_locked"]
    ELSE IF coin.cmc_submitted THEN [NoReply EXCEPT !.tag = "already_submitted"]
    ELSE Instructions(CMC_PRICE, "cmc", coin)

(* /unlock with the store updated before the payment *)
UnlockCommand_enables ==
    /\ cur.h = "idle"
    /\ \E user_id \in Users, db_ok \in BOOLEAN :
        \E coin \in get_user_coin(coins, user_id, db_ok) :
            /\ cur' = [Idle EXCEPT !.h = "unlock_command", !.pc = "reply_text",
                                   !.user_id = user_id, !.coin = coin,
                                   !.reply = unlock_command(coin)]
            /\ coins' = update_coin_status(coins, user_id, coin.contract_address,
                                           Some(TRUE), None)
    /\ UNCHANGED <<chain, transfers, now, actuations, outcome, probe, user_data, conv>>
    /\ UNCHANGED transactions

(* /unlock, lines 30-47: the caller's coin is read and the answer made up *)
UnlockCommand ==
    /\ cur.h = "idle"
    /\ \E user_id \in Users, db_ok \in BOOLEAN :
        \E coin \in get_user_coin(coins, user_id, db_ok) :
            cur' = [Idle EXCEPT !.h = "unlock_command", !.pc = "reply_text",
                                !.user_id = user_id, !.coin = coin,
                                !.reply = unlock_command(coin)]
    /\ UNCHANGED <<coins, chain, transfers, now, actuations, outcome, probe, user_data, conv>>
    /\ UNCHANGED transactions

(* /cmc, lines 77-101 *)
CmcCommand ==
    /\ cur.h = "idle"
    /\ \E user_id \in Users, db_ok \in BOOLEAN :
        \E coin \in get_user_coin(coins, user_id, db_ok) :
            cur' = [Idle EXCEPT !.h = "cmc_command", !.pc = "reply_text",
                                !.user_id = user_id, !.coin = coin,
                                !.reply = cmc_command(coin)]
    /\ UNCHANGED <<coins, chain, transfers, now, actuations, outcome, probe, user_data, conv>>
    /\ UNCHANGED transactions

(* the reply_text that ends either command; when it raises, the error        *)
(* handler of Bot.py answers                                                *)
CommandReply ==
    /\ cur.h \in {"unlock_command", "cmc_command"} /\ cur.pc = "reply_text"
    /\ \E sent \in BOOLEAN :
        outcome' = IF sent THEN cur.reply.tag ELSE "exception"
    /\ cur' = Idle
    /\ UNCHANGED <<coins, chain, transfers, now, actuations, probe, user_data, conv>>
    /\ UNCHANGED transactions

(* my_coin and generate_shill of Utility_Handlers.py: the caller's coin is  *)
(* read and shown                                                           *)
UtilityCommand ==
    /\ cur.h = "idle"
    /\ \E user_id \in Users, db_ok \in BOOLEAN :
        \E coin \in get_user_coin(coins, user_id, db_ok) :
            outcome' = IF coin = NoCoin THEN "no_coin" ELSE "coin_info"
    /\ UNCHANGED <<coins, chain, transfers, now, cur, actuations, probe, user_data, conv>>
    /\ UNCHANGED transactions

(* -------------------------- handle_ton_payment ------------------------- *)
(* str.upper() on the type words of the callback data *)
UpperType(s) ==
    CASE s = "unlock" -> "UNLOCK"
      [] s = "cmc" -> "CMC"
      [] s = "foo" -> "FOO"
      [] OTHER -> s

(* lines 155-174: the amount, the payment link (address, amount, memo) and  *)
(* the button that leads to verify_payment_callback                         *)
ton_payment(payment_type, coin, contract_address) ==
    [tag |-> "ton_payment",
     amount |-> payment_amount(payment_type),
     address |-> PAYMENT_WALLET,
     ref |-> <<UpperType(payment_type), coin.ref_id>>,
     callback |-> <<"verify", payment_type, contract_address>>]

(* lines 132-153: parse the callback data, read the caller's coin *)
HandleTonPayment ==
    /\ cur.h = "idle"
    /\ \E user_id \in Users, payment_type \in CallbackTypes,
          contract_address \in CallbackAddresses, db_ok \in BOOLEAN :
        \E coin \in get_user_coin(coins, user_id, db_ok) :
            IF coin_is_valid(coin, contract_address)
            THEN /\ cur' = [Idle EXCEPT !.h = "handle_ton_payment",
                                        !.pc = "edit_message_text",
                                        !.user_id = user_id,
                                        !.payment_type = payment_type,
                                        !.contract_address = contract_address,
                                        !.coin = coin,
                                        !.reply = ton_payment(payment_type, coin,
                                                              contract_address)]
                 /\ outcome' = outcome
            ELSE /\ cur' = Idle
                 /\ outcome' = "invalid"
    /\ UNCHANGED <<coins, chain, transfers, now, actuations, probe, user_data, conv>>
    /\ UNCHANGED transactions

(* lines 168-174: the message with the payment link; when it raises, the    *)
(* error handler of Bot.py answers                                          *)
TonPaymentReply ==
    /\ cur.h = "handle_ton_payment" /\ cur.pc = "edit_message_text"
    /\ \E sent \in BOOLEAN :
        outcome' = IF sent THEN cur.reply.tag ELSE "exception"
    /\ cur' = Idle
    /\ UNCHANGED <<coins, chain, transfers, now, actuations, probe, user_data, conv>>
    /\ UNCHANGED transactions

(* ---------------------------- environment ------------------------------ *)
Tick ==
    /\ now < MaxTime
    /\ now' = now + 1
    /\ UNCHANGED <<coins, chain, transfers, cur, actuations, outcome, probe, user_data, conv>>
    /\ UNCHANGED transactions

TransferTargets == {"0xpay", "0xother"}
TransferValues == {to_wei(UNLOCK_PRICE), to_wei(CMC_PRICE)}

(* Somebody pays: the explorer lists the transfer first (sort=desc). *)
Pay ==
    /\ Len(transfers) < MaxTransfers
    /\ \E to \in TransferTargets, value \in TransferValues :
        transfers' = <<Tx(now, to, value, "none")>> \o transfers
    /\ UNCHANGED <<coins, chain, now, cur, actuations, outcome, probe, user_data, conv>>
    /\ UNCHANGED transactions

(* A transaction whose receipt wait timed out is mined after all. *)
MinePending ==
    /\ \E t \in chain.pending :
        /\ t.nonce = chain.mined
        /\ chain' = [chain EXCEPT
                        !.trading = IF t.op = "enableTrading"
                                    THEN @ \cup {t.contract_address} ELSE @,
                        !.contracts = IF t.op = "deploy"
                                      THEN @ \cup {t.contract_address} ELSE @,
                        !.mined = @ + 1,
                        !.pending = @ \ {t}]
    /\ UNCHANGED <<coins, transfers, now, cur, actuations, outcome, probe, user_data, conv>>
    /\ UNCHANGED transactions

(* ------------------------ the payment coordinator ---------------------- *)
(* The store as two completed creations leave it (confirm_creation, lines   *)
(* 299-308): one locked coin per user, both contracts deployed.             *)
InitCoins ==
    <<NewRow(<<>>, 1, "Doge", "DOGE", 1, <<1, "DOGE">>, 1, "R1", FALSE, 0),
      NewRow(<<1>>, 2, "Shib", "SHIB", 1, <<2, "SHIB">>, 2, "R2", FALSE, 0)>>

Init ==
    /\ coins = InitCoins
    /\ chain = [contracts |-> {1, 2}, trading |-> {}, mined |-> 2, pending |-> {}]
    /\ transfers = <<>>
    /\ now = 0
    /\ cur = Idle
    /\ actuations = <<>>
    /\ outcome = NoOutcome
    /\ probe = NoProbe
    /\ user_data = [u \in Users |-> NoSession]
    /\ conv = [k \in ConvKeys |-> "END"]
    /\ transactions = <<>>

Next ==
    \/ VerifyStart
    \/ VerifyPayment
    \/ VerifyPaymentHangs
    \/ ReplyNotVerified
    \/ FallThrough
    \/ UnlockTrading
    \/ SubmitCmc
    \/ UpdateCoinStatus
    \/ Tick
    \/ Pay
    \/ MinePending

Spec == Init /\ [][Next]_vars

(* A handler that has been started runs on: each of its steps is taken      *)
(* unless the call it waits for does not return.                            *)
HandlerStep ==
    \/ VerifyPayment
    \/ VerifyPaymentHangs
    \/ ReplyNotVerified
    \/ FallThrough
    \/ UnlockTrading
    \/ SubmitCmc
    \/ UpdateCoinStatus

SpecFair == Spec /\ WF_vars(HandlerStep)

(* ------------------- the two callbacks and their admission ------------- *)
(* The stores the callbacks can meet: one coin per user, or a second coin   *)
(* of user 1 besides (two completed creations of one owner), stored in the  *)
(* same second as the first.                                                *)
AdmissionStores ==
    {InitCoins,
     Append(InitCoins,
            NewRow(InitCoins, 1, "Doge", "DOGE", 1, <<1, "DOGE">>, 3, "R1", FALSE, 0))}

(* The wallet has been paid the listing price, which covers either action. *)
InitAdmission ==
    /\ coins \in AdmissionStores
    /\ chain = [contracts |-> {1, 2, 3}, trading |-> {}, mined |-> 3, pending |-> {}]
    /\ transfers = <<Tx(0, "0xpay", to_wei(CMC_PRICE), "none")>>
    /\ now = 0
    /\ cur = Idle
    /\ actuations = <<>>
    /\ outcome = NoOutcome
    /\ probe = NoProbe
    /\ user_data = [u \in Users |-> NoSession]
    /\ conv = [k \in ConvKeys |-> "END"]
    /\ transactions = <<>>

NextAdmission ==
    \/ HandleTonPayment
    \/ TonPaymentReply
    \/ VerifyStart
    \/ VerifyPayment
    \/ ReplyNotVerified
    \/ FallThrough
    \/ UnlockTrading
    \/ SubmitCmc
    \/ UpdateCoinStatus

SpecAdmission == InitAdmission /\ [][NextAdmission]_vars

(* ----------------------- the commands on their own -------------------- *)
(* /unlock, /cmc and the utility commands on every store they can meet:     *)
(* user 2 has a coin, user 1 has one or none, each coin with any of the     *)
(* flags the confirm calls can leave it with.                               *)
Flagged(row, trading_enabled, cmc_submitted) ==
    [row EXCEPT !.trading_enabled = trading_enabled,
                !.cmc_submitted = cmc_submitted]

CommandStores ==
    {<<Flagged(NewRow(<<>>, 2, "Shib", "SHIB", 1, <<2, "SHIB">>, 2, "R2", FALSE, 0), t2, c2)>> :
        t2 \in BOOLEAN, c2 \in BOOLEAN}
    \cup {<<Flagged(InitCoins[1], t1, c1), Flagged(InitCoins[2], t2, c2)>> :
            t1 \in BOOLEAN, c1 \in BOOLEAN, t2 \in BOOLEAN, c2 \in BOOLEAN}

InitCommands ==
    /\ coins \in CommandStores
    /\ chain = [contracts |-> {1, 2},
                trading |-> {coins[i].contract_address :
                                i \in {k \in DOMAIN coins : coins[k].trading_enabled}},
                mined |-> 2, pending |-> {}]
    /\ transfers = <<>>
    /\ now = 0
    /\ cur = Idle
    /\ actuations = <<>>
    /\ outcome = NoOutcome
    /\ probe = NoProbe
    /\ user_data = [u \in Users |-> NoSession]
    /\ conv = [k \in ConvKeys |-> "END"]
    /\ transactions = <<>>

NextCommands ==
    \/ UnlockCommand
    \/ CmcCommand
    \/ CommandReply
    \/ UtilityCommand

SpecCommands == InitCommands /\ [][NextCommands]_vars

(* -------------------- the verifier on its own -------------------------- *)
(* Explorer entries: well formed ones, and ones whose timeStamp, to or      *)
(* value is missing or no number (the fields read after the bad one do not  *)
(* matter and are fixed; a bad to or value is only read of a recent entry,  *)
(* so those entries are recent).                                            *)
EntryTargets == {"0xpay", "0xPAY", "0xother"}

Entries ==
    {Tx(ts, to, value, "none") :
        ts \in 0..MaxTime, to \in EntryTargets, value \in TransferValues}
    \cup {Tx(0, "0xpay", to_wei(CMC_PRICE), "timeStamp")}
    \cup {Tx(MaxTime, "0xpay", to_wei(CMC_PRICE), "to")}
    \cup {Tx(MaxTime, to, to_wei(CMC_PRICE), "value") : to \in {"0xpay", "0xother"}}

RECURSIVE Lists(_, _)
Lists(S, n) ==
    IF n = 0 THEN {<<>>}
    ELSE Lists(S, n - 1) \cup {<<e>> \o l : e \in S, l \in Lists(S, n - 1)}

InitVerify ==
    /\ coins = <<>>
    /\ chain = [contracts |-> {}, trading |-> {}, mined |-> 0, pending |-> {}]
    /\ transfers \in Lists(Entries, MaxResult)
    /\ now = MaxTime
    /\ cur = Idle
    /\ actuations = <<>>
    /\ outcome = NoOutcome
    /\ probe = NoProbe
    /\ user_data = [u \in Users |-> NoSession]
    /\ conv = [k \in ConvKeys |-> "END"]
    /\ transactions = <<>>

(* The reference ids of the coins the verifier is called for. *)
ProbeRefIds == {"R1", "R2"}

(* verify_payment(PAYMENT_WALLET, expected_amount, reference) called on     *)
(* whatever the explorer returns.                                           *)
VerifyCall ==
    /\ \E kind \in FetchKinds, payment_type \in PaymentTypes, ref_id \in ProbeRefIds :
        probe' = [kind |-> kind,
                  expected_amount |-> payment_amount(payment_type),
                  reference |-> <<payment_type, ref_id>>,
                  ret |-> verify_payment(PAYMENT_WALLET, payment_amount(payment_type),
                                         <<payment_type, ref_id>>, now, kind, transfers)]
    /\ UNCHANGED <<coins, chain, transfers, now, cur, actuations, outcome,
                   user_data, conv>>
    /\ UNCHANGED transactions

NextVerify == VerifyCall

SpecVerify == InitVerify /\ [][NextVerify]_vars

(* ---------------------- the transactions ledger ------------------------ *)
(* add_transaction called on its own, as the store offers it.              *)
MaxLedger == 2
TxHashes == {"0xa", "0xb"}
TxStatuses == {"pending", "confirmed", "failed"}

InitLedger ==
    /\ coins = InitCoins
    /\ chain = [contracts |-> {1, 2}, trading |-> {}, mined |-> 2, pending |-> {}]
    /\ transfers = <<>>
    /\ now = 0
    /\ cur = Idle
    /\ actuations = <<>>
    /\ outcome = NoOutcome
    /\ probe = NoProbe
    /\ user_data = [u \in Users |-> NoSession]
    /\ conv = [k \in ConvKeys |-> "END"]
    /\ transactions = <<>>

AddTransaction ==
    /\ Len(transactions) < MaxLedger
    /\ \E user_id \in Users, coin_id \in DOMAIN coins, tx_type \in PaymentTypes,
          tx_hash \in TxHashes, status \in TxStatuses, db_ok \in BOOLEAN :
        transactions' =
            IF db_ok
            THEN add_transaction(transactions, user_id, coin_id, tx_type, tx_hash,
                                 payment_amount(tx_type), status, now)
            ELSE transactions
    /\ UNCHANGED <<coins, chain, transfers, now, cur, actuations, outcome, probe,
                   user_data, conv>>

NextLedger == AddTransaction

SpecLedger == InitLedger /\ [][NextLedger]_vars

(* ----------------------- creation conversation ------------------------- *)
(* Create_Handlers.py.  A handler that raises leaves the conversation in    *)
(* its state; the dispatcher's error handler answers.                       *)
NameTexts == {"ab", "Doge", "Doge Doge Doge Doge Doge Doge D"}
SymbolTexts == {"d", "doge", "dogecoin", "d-g"}
SupplyTexts == {"abc", "0", "-5", "1,000,000", "2,000,000,000,000,000"}
ButtonSupplies == {1}

(* supply_button, line 142: int(data.split("_")[1]) of callback data that   *)
(* matches ^supply_ and is none of the bot's buttons ("supply_0")           *)
ForgedSupplies == {0}
RefIds == {"R1", "R2"}

(* str.upper() and str.isalnum() on the symbol texts of the model *)
Upper(s) ==
    CASE s = "d" -> "D"
      [] s = "doge" -> "DOGE"
      [] s = "dogecoin" -> "DOGECOIN"
      [] s = "d-g" -> "D-G"
      [] OTHER -> s

isalnum(s) == s \in {"D", "DOGE", "DOGECOIN", "SHIB", "d", "doge", "dogecoin"}

(* int(text.replace(',', '')): None when int() raises ValueError *)
parse_int(text) ==
    CASE text = "0" -> Some(0)
      [] text = "-5" -> Some(0 - 5)
      [] text = "1,000,000" -> Some(1)
      [] text = "2,000,000,000,000,000" -> Some(2000000000)
      [] OTHER -> None

(* line 161: 0 < supply <= 1000000000000000 *)
MAX_SUPPLY == 1000000000
SupplyInRange(supply) == supply > 0 /\ supply <= MAX_SUPPLY

UserOf(key) == key[2]
ChatOf(key) == key[1]

Quiet == cur.h = "idle"

(* create_free, lines 36-61 *)
CreateFree ==
    /\ Quiet
    /\ \E key \in ConvKeys, db_ok \in BOOLEAN :
        /\ conv[key] = "END"
        /\ \E existing_coin \in get_user_coin(coins, UserOf(key), db_ok) :
            IF existing_coin # NoCoin
            THEN /\ outcome' = "already_exists"
                 /\ UNCHANGED <<user_data, conv>>
            ELSE /\ user_data' = [user_data EXCEPT ![UserOf(key)] = EmptySession]
                 /\ conv' = [conv EXCEPT ![key] = "NAME"]
                 /\ outcome' = "ask_name"
    /\ UNCHANGED <<coins, chain, transfers, now, cur, actuations, probe>>
    /\ UNCHANGED transactions

(* coin_name, lines 63-87 *)
CoinName ==
    /\ Quiet
    /\ \E key \in ConvKeys, name \in NameTexts :
        /\ conv[key] = "NAME"
        /\ IF Len(name) < 3 \/ Len(name) > 30
           THEN /\ outcome' = "reprompt"
                /\ UNCHANGED <<user_data, conv>>
           ELSE IF ~user_data[UserOf(key)].present
           THEN /\ outcome' = "exception"
                /\ UNCHANGED <<user_data, conv>>
           ELSE /\ user_data' = [user_data EXCEPT ![UserOf(key)].name = Some(name)]
                /\ conv' = [conv EXCEPT ![key] = "SYMBOL"]
                /\ outcome' = "ask_symbol"
    /\ UNCHANGED <<coins, chain, transfers, now, cur, actuations, probe>>
    /\ UNCHANGED transactions

(* coin_symbol, lines 89-122: the symbol is stored before the reply reads   *)
(* user_data[user_id]['name']                                               *)
CoinSymbol ==
    /\ Quiet
    /\ \E key \in ConvKeys, text \in SymbolTexts :
        LET symbol == Upper(text) IN
        /\ conv[key] = "SYMBOL"
        /\ IF Len(symbol) < 2 \/ Len(symbol) > 6 \/ ~isalnum(symbol)
           THEN /\ outcome' = "reprompt"
                /\ UNCHANGED <<user_data, conv>>
           ELSE IF ~user_data[UserOf(key)].present
           THEN /\ outcome' = "exception"
                /\ UNCHANGED <<user_data, conv>>
           ELSE /\ user_data' = [user_data EXCEPT ![UserOf(key)].symbol = Some(symbol)]
                /\ IF user_data[UserOf(key)].name = None
                   THEN /\ outcome' = "exception"
                        /\ UNCHANGED conv
                   ELSE /\ conv' = [conv EXCEPT ![key] = "SUPPLY"]
                        /\ outcome' = "ask_supply"
    /\ UNCHANGED <<coins, chain, transfers, now, cur, actuations, probe>>
    /\ UNCHANGED transactions

(* supply_button, lines 124-150 *)
SupplyButton ==
    /\ Quiet
    /\ \E key \in ConvKeys :
        /\ conv[key] = "SUPPLY"
        /\ \/ /\ outcome' = "ask_custom_supply"
              /\ UNCHANGED <<user_data, conv>>
           \/ \E supply \in ButtonSupplies \cup ForgedSupplies :
                IF ~user_data[UserOf(key)].present
                THEN /\ outcome' = "exception"
                     /\ UNCHANGED <<user_data, conv>>
                ELSE /\ user_data' = [user_data EXCEPT
                                        ![UserOf(key)].supply = Some(supply)]
                     /\ conv' = [conv EXCEPT ![key] = "LOGO"]
                     /\ outcome' = "ask_logo"
    /\ UNCHANGED <<coins, chain, transfers, now, cur, actuations, probe>>
    /\ UNCHANGED transactions

(* custom_supply, lines 152-178 *)
CustomSupply ==
    /\ Quiet
    /\ \E key \in ConvKeys, text \in SupplyTexts :
        LET parsed == parse_int(text) IN
        /\ conv[key] = "SUPPLY"
        /\ IF parsed = None \/ ~SupplyInRange(parsed[1])
           THEN /\ outcome' = "reprompt"
                /\ UNCHANGED <<user_data, conv>>
           ELSE IF ~user_data[UserOf(key)].present
           THEN /\ outcome' = "exception"
                /\ UNCHANGED <<user_data, conv>>
           ELSE /\ user_data' = [user_data EXCEPT
                                    ![UserOf(key)].supply = Some(parsed[1])]
                /\ conv' = [conv EXCEPT ![key] = "LOGO"]
                /\ outcome' = "ask_logo"
    /\ UNCHANGED <<coins, chain, transfers, now, cur, actuations, probe>>
    /\ UNCHANGED transactions

(* coin_logo, lines 180-246.  io: what downloading, compressing and         *)
(* sending back the picture come to.                                        *)
LogoIo == {"ok", "download_error", "compress_error", "send_error"}

CoinLogo ==
    /\ Quiet
    /\ \E key \in ConvKeys, io \in LogoIo :
        LET u == UserOf(key)
            sess == user_data[u]
        IN
        /\ conv[key] = "LOGO"
        /\ IF io = "download_error"
           THEN /\ outcome' = "exception"
                /\ UNCHANGED <<user_data, conv>>
           ELSE IF io = "compress_error" \/ ~sess.present \/ sess.symbol = None
           THEN /\ outcome' = "logo_error"
                /\ UNCHANGED <<user_data, conv>>
           ELSE /\ user_data' = [user_data EXCEPT
                                    ![u].logo_path = Some(<<u, sess.symbol[1]>>)]
                /\ IF sess.name = None \/ sess.supply = None \/ io = "send_error"
                   THEN /\ outcome' = "logo_error"
                        /\ UNCHANGED conv
                   ELSE /\ conv' = [conv EXCEPT ![key] = "CONFIRM"]
                        /\ outcome' = "ask_confirm"
    /\ UNCHANGED <<coins, chain, transfers, now, cur, actuations, probe>>
    /\ UNCHANGED transactions

(* cancel, lines 350-364: the fallback of a running conversation *)
Cancel ==
    /\ Quiet
    /\ \E key \in ConvKeys :
        /\ conv[key] # "END"
        /\ user_data' = [user_data EXCEPT ![UserOf(key)] = NoSession]
        /\ conv' = [conv EXCEPT ![key] = "END"]
        /\ outcome' = "cancelled"
    /\ UNCHANGED <<coins, chain, transfers, now, cur, actuations, probe>>
    /\ UNCHANGED transactions

SessionComplete(sess) ==
    /\ sess.present
    /\ sess.name # None /\ sess.symbol # None
    /\ sess.supply # None /\ sess.logo_path # None

(* The data of a confirm callback: the two buttons of coin_logo, and any    *)
(* other data that matches the handler's pattern ^confirm_ (callback data   *)
(* is chosen by the client).                                                *)
ConfirmData == {"confirm_yes", "confirm_no", "confirm_foo"}

(* confirm_creation, lines 248-278: confirm_no ends the conversation; any   *)
(* other confirm_ data reads the session (KeyError when a key is missing)   *)
ConfirmStart ==
    /\ Quiet
    /\ Len(actuations) < MaxActuations
    /\ \E key \in ConvKeys, data \in ConfirmData :
        LET sess == user_data[UserOf(key)] IN
        /\ conv[key] = "CONFIRM"
        /\ IF data = "confirm_no"
           THEN /\ conv' = [conv EXCEPT ![key] = "END"]
                /\ outcome' = "cancelled"
                /\ UNCHANGED cur
           ELSE IF ~SessionComplete(sess)
           THEN /\ outcome' = "exception"
                /\ UNCHANGED <<cur, conv>>
           ELSE /\ cur' = [Idle EXCEPT !.h = "confirm_creation",
                                       !.pc = "deploy_contract",
                                       !.user_id = UserOf(key),
                                       !.chat = ChatOf(key),
                                       !.data = data,
                                       !.name = sess.name[1],
                                       !.symbol = sess.symbol[1],
                                       !.supply = sess.supply[1],
                                       !.logo_path = sess.logo_path[1]]
                /\ outcome' = "deploying"
                /\ UNCHANGED conv
    /\ UNCHANGED <<coins, chain, transfers, now, actuations, probe, user_data>>
    /\ UNCHANGED transactions

(* the deployment without the test of line 295: a missing address is stored *)
DeployContract_no_address_test ==
    /\ cur.h = "confirm_creation" /\ cur.pc = "deploy_contract"
    /\ \E res \in ChainResults, ref_id \in RefIds :
        LET contract_address == deploy_contract_result(chain, res) IN
        /\ chain' = deploy_contract_chain(chain, res)
        /\ actuations' = Append(actuations,
                Actuation("deploy_contract",
                          IF contract_address = None THEN 0 ELSE contract_address[1],
                          cur.user_id, chain.mined, contract_address # None,
                          was_sent(res), <<cur.name, cur.symbol, cur.supply>>))
        /\ cur' = [cur EXCEPT !.pc = "add_new_coin",
                              !.contract_address =
                                  IF contract_address = None THEN 0
                                  ELSE contract_address[1],
                              !.ref_id = ref_id]
    /\ UNCHANGED <<coins, transfers, now, outcome, probe, user_data, conv, transactions>>

(* lines 280-296, 341-348 with BlockChain.deploy_contract *)
DeployContract ==
    /\ cur.h = "confirm_creation" /\ cur.pc = "deploy_contract"
    /\ \E res \in ChainResults, ref_id \in RefIds :
        LET contract_address == deploy_contract_result(chain, res) IN
        /\ chain' = deploy_contract_chain(chain, res)
        /\ actuations' = Append(actuations,
                Actuation("deploy_contract",
                          IF contract_address = None THEN 0 ELSE contract_address[1],
                          cur.user_id, chain.mined, contract_address # None,
                          was_sent(res), <<cur.name, cur.symbol, cur.supply>>))
        /\ IF contract_address = None
           THEN /\ cur' = Idle
                /\ conv' = [conv EXCEPT ![<<cur.chat, cur.user_id>>] = "END"]
                /\ outcome' = "error"
           ELSE /\ cur' = [cur EXCEPT !.pc = "add_new_coin",
                                      !.contract_address = contract_address[1],
                                      !.ref_id = ref_id]
                /\ outcome' = outcome
                /\ UNCHANGED conv
    /\ UNCHANGED <<coins, transfers, now, probe, user_data>>
    /\ UNCHANGED transactions

(* the success message and the cleanup ahead of the insert: the insert is   *)
(* only made when the message went out                                      *)
AddNewCoin_after_reply ==
    /\ cur.h = "confirm_creation" /\ cur.pc = "add_new_coin"
    /\ \E sent \in BOOLEAN, db_ok \in BOOLEAN :
        IF sent
        THEN /\ user_data' = [user_data EXCEPT ![cur.user_id] = NoSession]
             /\ outcome' = "created"
             /\ coins' = IF db_ok
                         THEN add_new_coin(coins, cur.user_id, cur.name, cur.symbol,
                                           cur.supply, cur.logo_path,
                                           cur.contract_address, cur.ref_id, FALSE, now)
                         ELSE coins
        ELSE /\ outcome' = "error"
             /\ UNCHANGED <<user_data, coins>>
    /\ conv' = [conv EXCEPT ![<<cur.chat, cur.user_id>>] = "END"]
    /\ cur' = Idle
    /\ UNCHANGED <<chain, transfers, now, actuations, probe, transactions>>

(* lines 298-308: the insert, whose result is ignored *)
AddNewCoin ==
    /\ cur.h = "confirm_creation" /\ cur.pc = "add_new_coin"
    /\ \E db_ok \in BOOLEAN :
        coins' = IF db_ok
                 THEN add_new_coin(coins, cur.user_id, cur.name, cur.symbol,
                                   cur.supply, cur.logo_path, cur.contract_address,
                                   cur.ref_id, FALSE, now)
                 ELSE coins
    /\ cur' = [cur EXCEPT !.pc = "send_photo"]
    /\ UNCHANGED <<chain, transfers, now, actuations, outcome, probe, user_data, conv>>
    /\ UNCHANGED transactions

(* lines 310-348: the success message, then the session is dropped; when    *)
(* the message fails the except clause answers and the session stays        *)
SendPhoto ==
    /\ cur.h = "confirm_creation" /\ cur.pc = "send_photo"
    /\ \E sent \in BOOLEAN :
        IF sent
        THEN /\ user_data' = [user_data EXCEPT ![cur.user_id] = NoSession]
             /\ outcome' = "created"
        ELSE /\ outcome' = "error"
             /\ UNCHANGED user_data
    /\ conv' = [conv EXCEPT ![<<cur.chat, cur.user_id>>] = "END"]
    /\ cur' = Idle
    /\ UNCHANGED <<coins, chain, transfers, now, actuations, probe>>
    /\ UNCHANGED transactions

(* User 2 has created its coin before: the first contract of the deployer,  *)
(* stored locked under the reference R2.                                    *)
InitCreate ==
    /\ coins = <<NewRow(<<>>, 2, "Shib", "SHIB", 1, <<2, "SHIB">>,
                        contract_address_of(0), "R2", FALSE, 0)>>
    /\ chain = [contracts |-> {contract_address_of(0)}, trading |-> {},
                mined |-> 1, pending |-> {}]
    /\ transfers = <<>>
    /\ now = 0
    /\ cur = Idle
    /\ actuations = <<>>
    /\ outcome = NoOutcome
    /\ probe = NoProbe
    /\ user_data = [u \in Users |-> NoSession]
    /\ conv = [k \in ConvKeys |-> "END"]
    /\ transactions = <<>>

NextCreate ==
    \/ CreateFree
    \/ CoinName
    \/ CoinSymbol
    \/ SupplyButton
    \/ CustomSupply
    \/ CoinLogo
    \/ Cancel
    \/ ConfirmStart
    \/ DeployContract
    \/ AddNewCoin
    \/ SendPhoto
    \/ MinePending

SpecCreate == InitCreate /\ [][NextCreate]_vars

(* ============================ properties =============================== *)
InVerify == cur.h = "verify_payment_callback"

Invoked(i, op, contract_address) ==
    /\ actuations[i].op = op
    /\ actuations[i].contract_address = contract_address

Addresses == {coins[i].contract_address : i \in DOMAIN coins}

(* An actuator invocation happens in this step. *)
Actuates == Len(actuations') = Len(actuations) + 1

(* C1: for one asset, ConfirmUnlock calls that all pass verification lead   *)
(* to one invocation of unlock_trading and one confirmed outcome: once      *)
(* unlock_trading has succeeded for an address and the store shows its      *)
(* trading enabled, it is not invoked for that address again.               *)
EnabledIn(cs, contract_address) ==
    \E k \in DOMAIN cs : /\ cs[k].contract_address = contract_address
                          /\ cs[k].trading_enabled

StoredEnabled(contract_address) == EnabledIn(coins, contract_address)

C1_AtMostOnceUnlock ==
    \A i, j \in DOMAIN actuations :
        (i < j /\ actuations[i].success)
            => ~(\E a \in Addresses : /\ StoredEnabled(a)
                                        /\ Invoked(i, "unlock_trading", a)
                                        /\ Invoked(j, "unlock_trading", a))

(* C2: every owner has at most one asset in the store.                      *)
C2_OneAssetPerOwner ==
    \A u \in Users : Cardinality(UserRows(coins, u)) <= 1

(* C3: the lifecycle flags of a stored asset never go back: a row stays,    *)
(* trading_enabled and cmc_submitted stay true once true, and the lifecycle *)
(* rank (locked 0, enabled 1, listing submitted 2) never decreases.         *)
Rank(row) == IF row.cmc_submitted THEN 2 ELSE IF row.trading_enabled THEN 1 ELSE 0

C3_LifecycleMonotonic ==
    [][\A i \in DOMAIN coins :
          /\ i \in DOMAIN coins'
          /\ coins[i].trading_enabled => coins'[i].trading_enabled
          /\ coins[i].cmc_submitted => coins'[i].cmc_submitted
          /\ Rank(coins'[i]) >= Rank(coins[i])]_vars

(* an asset went through both transitions, the second write leaving the     *)
(* first flag alone                                                         *)
C3_Witness ==
    \E i \in DOMAIN coins :
        /\ coins[i].trading_enabled /\ coins[i].cmc_submitted
        /\ outcome = "cmc_submitted"

(* C4: verify_payment fails closed: when the fetch fails (the request       *)
(* raises, the body is no JSON, the status field is missing, or the status  *)
(* is not "1"), or when the first entry of the result cannot be read, the   *)
(* call returns False.                                                      *)
C4_FailClosed ==
    /\ probe.kind \in FetchKinds \ {"ok"} => ~probe.ret
    /\ (probe.kind = "ok" /\ transfers # <<>> /\ Head(transfers).bad = "timeStamp")
            => ~probe.ret

(* a failed fetch although the wallet was paid in the last hour *)
Pays(tx, expected_amount, current_time) ==
    /\ tx.bad = "none"
    /\ tx.timeStamp >= current_time - HOUR
    /\ Lower(tx.to) = Lower(PAYMENT_WALLET)
    /\ tx.value >= to_wei(expected_amount)

C4_Witness ==
    /\ probe.kind = "status_0"
    /\ ~probe.ret
    /\ transfers # <<>>
    /\ Pays(Head(transfers), probe.expected_amount, now)

(* C5: a ConfirmUnlock on an asset whose trading is already enabled is       *)
(* answered AlreadyUnlocked: it goes neither to the verifier nor to          *)
(* unlock_trading.                                                           *)
C5_ConfirmUnlockIdempotent ==
    (InVerify /\ cur.payment_type = "unlock" /\ cur.coin.trading_enabled)
        => cur.pc \notin {"verify_payment", "unlock_trading", "update_coin_status"}

(* C6: every actuator invocation of a confirm call follows a verify_payment *)
(* of that same call that returned True.                                    *)
C6_PaymentGated ==
    [][Actuates => (InVerify /\ cur.payment_verified)]_vars

(* both actuators were invoked *)
C6_Witness ==
    /\ \E i \in DOMAIN actuations : actuations[i].op = "unlock_trading"
    /\ \E i \in DOMAIN actuations : actuations[i].op = "submit_cmc"

(* C7: a confirm call whose verification did not succeed writes nothing to  *)
(* the store, invokes no actuator, submits no transaction, and ends with    *)
(* the payment-not-found answer.                                            *)
C7_NotVerifiedNoEffect ==
    [][(InVerify /\ ~cur.payment_verified) =>
          /\ coins' = coins
          /\ actuations' = actuations
          /\ chain'.pending \subseteq chain.pending
          /\ cur.pc \in {"verify_payment", "return", "blocked"}
          /\ (cur.pc = "return" /\ cur' # cur)
                => (cur' = Idle /\ outcome' = "payment_failed")]_vars

(* the verifier said no for an unlock of a locked asset, and the call       *)
(* answered payment-not-found                                               *)
C7_Witness ==
    /\ outcome = "payment_failed"
    /\ cur = Idle
    /\ \A i \in DOMAIN coins : ~coins[i].trading_enabled
    /\ actuations = <<>>

(* C8: one transfer authorises at most one privileged action: there are     *)
(* never more (action, asset) pairs confirmed than transfers paying the     *)
(* wallet.                                                                  *)
Confirmed ==
    {<<actuations[i].op, actuations[i].contract_address>> :
        i \in {k \in DOMAIN actuations : actuations[k].success}}

Payments == {i \in DOMAIN transfers : Lower(transfers[i].to) = Lower(PAYMENT_WALLET)}

C8_NoDoubleSpend == Cardinality(Confirmed) <= Cardinality(Payments)

(* C9: a listing is never recorded for an asset whose trading is locked.    *)
C9_ListingOnlyAfterTrading ==
    \A i \in DOMAIN coins : coins[i].cmc_submitted => coins[i].trading_enabled

(* C10: when unlock_trading returns failure the call ends with the error    *)
(* answer and the store is as before.                                       *)
C10_FailedLeavesLocked ==
    [][(InVerify /\ cur.pc = "unlock_trading" /\ Actuates
            /\ ~actuations'[Len(actuations')].success)
          => (coins' = coins /\ cur' = Idle /\ outcome' = "error")]_vars

(* unlock_trading failed on a verified payment and the asset is still       *)
(* locked                                                                   *)
C10_Witness ==
    /\ actuations # <<>>
    /\ LET a == actuations[Len(actuations)] IN
        /\ a.op = "unlock_trading" /\ ~a.success
        /\ \A i \in DOMAIN coins :
              coins[i].contract_address = a.contract_address
                  => ~coins[i].trading_enabled
    /\ outcome = "error"
    /\ cur = Idle

(* C11: a ConfirmUnlock that follows a failed actuation for the same asset  *)
(* is not stuck: its verified payment takes it to unlock_trading again,     *)
(* and when that actuation succeeds the call ends with the asset's trading  *)
(* enabled in the store.                                                    *)
PriorFailed(contract_address) ==
    \E i \in DOMAIN actuations :
        /\ Invoked(i, "unlock_trading", contract_address)
        /\ ~actuations[i].success

C11_RetryAfterFailure ==
    [][(InVerify /\ cur.payment_type = "unlock"
            /\ PriorFailed(cur.contract_address)) =>
          /\ (cur.pc = "verify_payment" /\ cur' # cur /\ cur'.payment_verified)
                => cur'.pc = "unlock_trading"
          /\ (cur.pc = "update_coin_status" /\ cur' = Idle)
                => EnabledIn(coins', cur.contract_address)]_vars

(* C12: when deploy_contract returns no address nothing is stored, the call *)
(* ends with the error answer and the conversation is over; a later         *)
(* /createfree of the owner is turned down as already existing only when    *)
(* the store holds an asset of the owner.                                   *)
LastActuation == actuations[Len(actuations)]

C12_DeployFailureRetry ==
    [][/\ (cur.h = "confirm_creation" /\ cur.pc = "deploy_contract" /\ Actuates
              /\ ~actuations'[Len(actuations')].success)
            => /\ coins' = coins
               /\ cur' = Idle
               /\ conv'[<<cur.chat, cur.user_id>>] = "END"
               /\ outcome' = "error"
       /\ (Quiet /\ outcome # "already_exists" /\ outcome' = "already_exists")
            => \E key \in ConvKeys : /\ conv[key] = "END"
                                     /\ UserRows(coins, UserOf(key)) # {}]_vars

(* the deployment failed, nothing is stored for the owner, and the owner's  *)
(* next /createfree was taken                                               *)
C12_Witness ==
    /\ actuations # <<>>
    /\ LastActuation.op = "deploy_contract" /\ ~LastActuation.success
    /\ UserRows(coins, LastActuation.user_id) = {}
    /\ outcome = "ask_name"
    /\ \E key \in ConvKeys : UserOf(key) = LastActuation.user_id /\ conv[key] = "NAME"

(* C13: when the contract is deployed and the insert into the store fails,  *)
(* the creation is not reported as a success.                               *)
Stored(contract_address) ==
    \E i \in DOMAIN coins : coins[i].contract_address = contract_address

C13_StoreFaultSurfaced ==
    [][(cur.h = "confirm_creation" /\ cur.pc = "send_photo"
            /\ ~Stored(cur.contract_address))
          => outcome' # "created"]_vars

(* C14: a receipt wait that times out after the transaction was broadcast   *)
(* is not answered like a failure, and while that transaction is pending no *)
(* further enableTrading transaction is sent for the same asset.            *)
PendingUnlock(contract_address) ==
    \E t \in chain.pending :
        t.op = "enableTrading" /\ t.contract_address = contract_address

C14_TimeoutIsPending ==
    [][(InVerify /\ cur.pc = "unlock_trading" /\ Actuates) =>
          LET a == actuations'[Len(actuations')] IN
          /\ (a.sent /\ ~a.success) => outcome' # "error"
          /\ a.sent => ~PendingUnlock(cur.contract_address)]_vars

(* C15: of one owner, at most one state-mutating operation is between its   *)
(* read of the store and its write: no second creation of the owner has     *)
(* read the store (create_free) while a first one has not yet ended, and no *)
(* confirm call of the owner runs beside it.                                *)
OpenCreations(u) == {key \in ConvKeys : UserOf(key) = u /\ conv[key] # "END"}

RunningConfirms(u) == IF InVerify /\ cur.user_id = u THEN 1 ELSE 0

C15_PerOwnerExclusion ==
    \A u \in Users : Cardinality(OpenCreations(u)) + RunningConfirms(u) <= 1

(* C16: no two transactions that were sent were built with the same nonce.  *)
C16_NoNonceReuse ==
    \A i, j \in DOMAIN actuations :
        (i < j /\ actuations[i].sent /\ actuations[j].sent)
            => actuations[i].nonce # actuations[j].nonce

(* C17: on a successful fetch verify_payment returns True exactly when the  *)
(* history holds a transfer of the last hour to the wallet (letter case     *)
(* aside) of at least the expected amount in wei, whatever the reference:   *)
(* True only if there is one, and True if there is one and every entry of   *)
(* the history can be read.                                                 *)
Readable == \A i \in DOMAIN transfers : transfers[i].bad = "none"

Paid(expected_amount) ==
    \E i \in DOMAIN transfers : Pays(transfers[i], expected_amount, now)

C17_VerifyIffPaid ==
    probe.kind = "ok" =>
        /\ probe.ret => Paid(probe.expected_amount)
        /\ (Readable /\ Paid(probe.expected_amount)) => probe.ret

(* True for a transfer that comes second in the history, names the wallet   *)
(* in other letter case and pays more than asked, under another reference   *)
C17_Witness ==
    /\ probe.kind = "ok" /\ probe.ret
    /\ probe.reference[2] = "R2"
    /\ Len(transfers) = 2
    /\ ~Pays(transfers[1], probe.expected_amount, now)
    /\ transfers[2].to = "0xPAY"
    /\ transfers[2].value > to_wei(probe.expected_amount)
    /\ transfers[2].timeStamp = now - HOUR

(* C18: the ledger never holds two records in Pending or Confirmed for the  *)
(* same asset and the same kind of action.                                  *)
OpenRecords(coin_id, tx_type) ==
    {i \in DOMAIN transactions :
        /\ transactions[i].coin_id = coin_id
        /\ transactions[i].tx_type = tx_type
        /\ transactions[i].status \in {"pending", "confirmed"}}

LedgerKind(op) == IF op = "unlock_trading" THEN "unlock" ELSE "cmc"

Recorded(a) ==
    \E i \in DOMAIN transactions, k \in DOMAIN coins :
        /\ coins[k].contract_address = a.contract_address
        /\ transactions[i].coin_id = coins[k].id
        /\ transactions[i].tx_type = LedgerKind(a.op)

C19_ActuationRecorded ==
    \A i \in DOMAIN actuations :
        actuations[i].op \in {"unlock_trading", "submit_cmc"}
            => Recorded(actuations[i])

(* C20: an asset enters the store locked (trading_enabled and cmc_submitted *)
(* false), under the address a deploy_contract of its owner has returned.   *)
Deployed(user_id, contract_address) ==
    \E i \in DOMAIN actuations :
        /\ Invoked(i, "deploy_contract", contract_address)
        /\ actuations[i].user_id = user_id
        /\ actuations[i].success

C20_CreatedLocked ==
    [][\A i \in DOMAIN coins' :
          i \notin DOMAIN coins =>
              /\ ~coins'[i].trading_enabled
              /\ ~coins'[i].cmc_submitted
              /\ Deployed(coins'[i].user_id, coins'[i].contract_address)]_vars

(* a creation went through: the asset is stored, locked, and reported       *)
C20_Witness ==
    /\ outcome = "created"
    /\ coins # <<>>
    /\ ~coins[Len(coins)].trading_enabled
    /\ Deployed(coins[Len(coins)].user_id, coins[Len(coins)].contract_address)

(* C21: /unlock changes nothing: while unlock_command runs, whatever it     *)
(* answers, the store, the ledger and the chain stay as they are and        *)
(* neither an actuator nor the verifier is called.                          *)
C21_UnlockCommandReadOnly ==
    [][(cur.h = "unlock_command" \/ cur'.h = "unlock_command") =>
          /\ coins' = coins /\ transactions' = transactions
          /\ chain' = chain
          /\ actuations' = actuations /\ probe' = probe]_vars

(* /unlock has answered with the payment instructions *)
C21_Witness ==
    /\ cur = Idle
    /\ outcome = "unlock_instructions"
    /\ \E i \in DOMAIN coins : ~coins[i].trading_enabled

(* C22: /unlock answers with the instructions only for an owner whose asset *)
(* has its trading locked, and these name the unlock price and the          *)
(* reference of that asset; it answers no-asset for an owner without an     *)
(* asset and already-unlocked for an owner whose trading is enabled.        *)
C22_UnlockCommandGate ==
    cur.h = "unlock_command" =>
        LET rows == UserRows(coins, cur.user_id) IN
        /\ cur.reply.tag = "unlock_instructions" =>
              \E i \in rows : /\ ~coins[i].trading_enabled
                              /\ cur.reply.amount = UNLOCK_PRICE
                              /\ cur.reply.ref = <<"unlock", coins[i].ref_id>>
        /\ rows = {} => cur.reply.tag = "no_coin"
        /\ (rows # {} /\ \A i \in rows : coins[i].trading_enabled)
              => cur.reply.tag = "already_unlocked"

(* C23: /cmc answers with the listing instructions only for an owner whose  *)
(* asset has its trading enabled and its listing not submitted; it answers  *)
(* no-asset, trading-locked or already-submitted in the other cases.        *)
C23_CmcCommandGate ==
    cur.h = "cmc_command" =>
        LET rows == UserRows(coins, cur.user_id) IN
        /\ cur.reply.tag = "cmc_instructions" =>
              \E i \in rows : /\ coins[i].trading_enabled
                              /\ ~coins[i].cmc_submitted
                              /\ cur.reply.amount = CMC_PRICE
                              /\ cur.reply.ref = <<"cmc", coins[i].ref_id>>
        /\ rows = {} => cur.reply.tag = "no_coin"
        /\ (rows # {} /\ \A i \in rows : ~coins[i].trading_enabled)
              => cur.reply.tag = "trading_locked"
        /\ (rows # {} /\ \A i \in rows :
                            coins[i].trading_enabled /\ coins[i].cmc_submitted)
              => cur.reply.tag = "already_submitted"

(* C24: for one asset submit_cmc succeeds at most once, however often the   *)
(* listing is confirmed.                                                    *)
C24_AtMostOnceListing ==
    \A i, j \in DOMAIN actuations :
        (i < j /\ actuations[i].success /\ actuations[j].success)
            => ~(\E a \in Addresses : /\ Invoked(i, "submit_cmc", a)
                                        /\ Invoked(j, "submit_cmc", a))

(* C25: no two stored assets have the same reference code.                  *)
C25_ReferenceUnique ==
    \A i, j \in DOMAIN coins : i # j => coins[i].ref_id # coins[j].ref_id

(* C26: once an asset is stored, its owner, name, symbol, supply, logo,     *)
(* contract address and reference code never change; only the two flags do. *)
Identity(row) ==
    <<row.id, row.user_id, row.name, row.symbol, row.supply, row.logo_path,
      row.contract_address, row.ref_id, row.created_at>>

C26_IdentityImmutable ==
    [][\A i \in DOMAIN coins :
          i \in DOMAIN coins' /\ Identity(coins'[i]) = Identity(coins[i])]_vars

(* both flags of an asset were written and its identity is as created *)
C26_Witness ==
    /\ coins[1].trading_enabled /\ coins[1].cmc_submitted
    /\ Identity(coins[1]) = Identity(InitCoins[1])

(* C27: every stored asset has a contract address, and for an owner without *)
(* a stored asset the store gives no address.                               *)
C27_AddressPresent ==
    /\ \A i \in DOMAIN coins : coins[i].contract_address # 0
    /\ \A u \in Users :
          UserRows(coins, u) = {} =>
              \A coin \in get_user_coin(coins, u, TRUE) : coin.contract_address = 0

(* user 1 has created an asset, stored under the address of its contract,   *)
(* and the session is gone                                                  *)
C27_Witness ==
    /\ \E i \in DOMAIN coins : /\ coins[i].user_id = 1
                               /\ coins[i].contract_address \in chain.contracts
    /\ user_data[1] = NoSession
    /\ cur = Idle

(* C28: no handler ends in an exception it has not answered itself.         *)
C28_NoRawException == outcome # "exception"

(* C29: every confirm call that has started comes to its end.               *)
C29_CallReturns == InVerify ~> ~InVerify

SubmittedIn(cs, contract_address) ==
    \E k \in DOMAIN cs : /\ cs[k].contract_address = contract_address
                          /\ cs[k].cmc_submitted

C31_ReportedIsCommitted ==
    [][(InVerify /\ cur' = Idle) =>
          /\ outcome' = "unlocked" => EnabledIn(coins', cur.contract_address)
          /\ outcome' = "cmc_submitted" => SubmittedIn(coins', cur.contract_address)]_vars

(* C32: /createfree is taken up only when the store holds no asset of the   *)
(* owner: a conversation opens only for an owner without a stored row, also *)
(* when the read of the store fails.                                        *)
C32_AdmittedOnlyWithoutAsset ==
    [][\A key \in ConvKeys :
          (conv[key] = "END" /\ conv'[key] = "NAME")
              => UserRows(coins, UserOf(key)) = {}]_vars

(* C33: a callback is bound to the caller's own asset: verify_payment_      *)
(* callback and handle_ton_payment go on for an address only when the store *)
(* holds a row of the caller with that address, which is the coin they work *)
(* on; for any other address (another owner's, or none) they answer invalid *)
(* and end at once, with no explorer fetch, no actuator call and no store   *)
(* write; and a store write changes rows of the caller with that address    *)
(* only.                                                                    *)
InCallback == cur.h \in {"verify_payment_callback", "handle_ton_payment"}

OwnRow(cs, user_id, contract_address) ==
    \E i \in DOMAIN cs : /\ cs[i].user_id = user_id
                          /\ cs[i].contract_address = contract_address

C33_BoundToOwnAsset ==
    [][/\ InCallback =>
            /\ OwnRow(coins, cur.user_id, cur.contract_address)
            /\ cur.coin.user_id = cur.user_id
            /\ cur.coin.contract_address = cur.contract_address
       /\ ~InCallback =>
            /\ actuations' = actuations
            /\ coins' = coins
            /\ cur' = cur \/ cur' = Idle
                  \/ OwnRow(coins, cur'.user_id, cur'.contract_address)
       /\ \A i \in DOMAIN coins :
            coins'[i] # coins[i] =>
                /\ InCallback
                /\ coins[i].user_id = cur.user_id
                /\ coins[i].contract_address = cur.contract_address]_vars

(* user 1 has unlocked its own contract, a callback for another address was *)
(* then turned down with nothing done, and user 1 is now given the payment  *)
(* link for the listing of its own contract                                 *)
C33_Witness ==
    /\ cur.h = "handle_ton_payment" /\ cur.payment_type = "cmc"
    /\ cur.user_id = 1 /\ cur.contract_address = 1
    /\ outcome = "invalid"
    /\ Len(actuations) = 1
    /\ actuations[1].user_id = 1 /\ actuations[1].contract_address = 1
    /\ coins[1].trading_enabled /\ ~coins[2].trading_enabled

(* C34: deploy_contract is only called at the end of a complete creation    *)
(* conversation: a conversation moves through NAME, SYMBOL, SUPPLY, LOGO    *)
(* and CONFIRM in this order or ends; confirm_creation starts, and deploys, *)
(* only for a conversation that is in CONFIRM, on confirm_yes, with a       *)
(* complete session; and the step that answers "cancelled" (confirm_no or   *)
(* /cancel) ends a conversation, calls no actuator, starts no deployment    *)
(* and stores nothing.                                                      *)
StageOrder ==
    {<<"END", "NAME">>, <<"NAME", "SYMBOL">>, <<"SYMBOL", "SUPPLY">>,
     <<"SUPPLY", "LOGO">>, <<"LOGO", "CONFIRM">>}

Deploys == Actuates /\ actuations'[Len(actuations')].op = "deploy_contract"

C34_DeployAfterConversation ==
    [][/\ \A key \in ConvKeys :
            conv'[key] # conv[key] =>
                (<<conv[key], conv'[key]>> \in StageOrder \/ conv'[key] = "END")
       /\ (Quiet /\ cur'.h = "confirm_creation") =>
            /\ conv[<<cur'.chat, cur'.user_id>>] = "CONFIRM"
            /\ SessionComplete(user_data[cur'.user_id])
            /\ cur'.data = "confirm_yes"
       /\ Deploys =>
            /\ cur.h = "confirm_creation"
            /\ conv[<<cur.chat, cur.user_id>>] = "CONFIRM"
            /\ cur.data = "confirm_yes"
            /\ actuations'[Len(actuations')].user_id = cur.user_id
       /\ (outcome' = "cancelled" /\ <<outcome, conv, user_data>>' # <<outcome, conv, user_data>>) =>
            /\ \E key \in ConvKeys : conv[key] # "END" /\ conv'[key] = "END"
            /\ UNCHANGED <<actuations, coins, chain, cur>>]_vars

(* C35: every stored asset, and every deployment, has a validated identity: *)
(* a name of 3 to 30 characters, a symbol of 2 to 6 alphanumeric            *)
(* upper-case characters, and a supply above 0 and at most                  *)
(* 1,000,000,000,000,000.                                                   *)
ValidIdentity(name, symbol, supply) ==
    /\ Len(name) >= 3 /\ Len(name) <= 30
    /\ Len(symbol) >= 2 /\ Len(symbol) <= 6
    /\ isalnum(symbol) /\ Upper(symbol) = symbol
    /\ supply > 0 /\ supply <= MAX_SUPPLY

C35_ValidatedIdentity ==
    /\ \A i \in DOMAIN coins :
          ValidIdentity(coins[i].name, coins[i].symbol, coins[i].supply)
    /\ \A i \in DOMAIN actuations :
          actuations[i].op = "deploy_contract" =>
              ValidIdentity(actuations[i].args[1], actuations[i].args[2],
                            actuations[i].args[3])

(* C36: store and chain agree on the identity: a stored asset carries the   *)
(* owner, name, symbol and supply of the deploy_contract call that returned *)
(* its address, whatever happens to the owner's session before or after    *)
(* (the first row is user 2's, stored before any call recorded here).       *)
AgreesWith(row, a) ==
    /\ row.user_id = a.user_id
    /\ <<row.name, row.symbol, row.supply>> = a.args

ReturnedBy(contract_address) ==
    {i \in DOMAIN actuations :
        /\ Invoked(i, "deploy_contract", contract_address)
        /\ actuations[i].success}

C36_StoreMatchesDeploy ==
    \A i \in DOMAIN coins :
        /\ i > 1 => ReturnedBy(coins[i].contract_address) # {}
        /\ \A j \in ReturnedBy(coins[i].contract_address) :
              AgreesWith(coins[i], actuations[j])

(* user 1's asset is stored as it was deployed, and the owner's session has *)
(* been reset by a further /createfree since                                *)
C36_Witness ==
    /\ Len(coins) = 2 /\ coins[2].user_id = 1
    /\ ReturnedBy(coins[2].contract_address) # {}
    /\ user_data[1] = EmptySession
    /\ \E key \in ConvKeys : conv[key] = "NAME"

====
